---------------------------- MODULE Spec2Model ----------------------------
(***************************************************************************)
(* LSH (src/main.c): the read / tokenize / dispatch / launch-and-wait loop *)
(* of the interpreter, with the child processes it forks and the kernel's  *)
(* waitpid protocol.                                                       *)
(*                                                                         *)
(* The interpreter is the default build (LSH_USE_STD_GETLINE undefined):   *)
(* lsh_read_line reads with getchar.  Characters are one-character strings *)
(* and a C string is a sequence of them; a char* is a record that is       *)
(* either NULL or points to a C string.                                    *)
(***************************************************************************)
EXTENDS Integers, Sequences, FiniteSets

(***************************************************************************)
(* Bounds of the model.                                                    *)
(***************************************************************************)
\* lines the input stream holds at most (then only end-of-input follows)
MaxLines == 3
\* stops (SIGSTOP/SIGTSTP) one child receives at most
MaxStops == 2
\* longest line of the tokenizer's exhaustive input set (SplitSpec)
MaxLineLen == 5
\* growth step of the line buffer: 1024 in the source, scaled down so that
\* the script's lines cross it
LSH_RL_BUFSIZE == 2
\* growth step of the token array: 64 in the source, scaled down likewise
LSH_TOK_BUFSIZE == 2

(***************************************************************************)
(* Characters.                                                             *)
(***************************************************************************)
SP  == " "
TAB == "\t"
CR  == "\r"
LF  == "\n"
BEL == "^G"
NUL == "^@"
EOF == "EOF"

\* a delimiter string without the bell
LSH_TOK_DELIM_without_bell == {SP, TAB, CR, LF}

\* #define LSH_TOK_DELIM " \t\r\n\a"
LSH_TOK_DELIM == {SP, TAB, CR, LF, BEL}

EXIT_SUCCESS == "success"
EXIT_FAILURE == "failure"

\* a char*: NULL, or a pointer to the C string s
NULL == [null |-> TRUE, s |-> <<>>]
Ptr(s) == [null |-> FALSE, s |-> s]

(***************************************************************************)
(* The environment: what stdin may hold, which programs execvp finds and   *)
(* which directories chdir accepts.                                        *)
(***************************************************************************)
ScriptLines ==
  { <<>>,
    <<"c","d">>,
    <<"c","d",SP,"d">>,
    <<"c","d",SP,"d",SP,"e">>,
    <<"c","d",SP,"x">>,
    <<"c","d","x">>,
    <<"e","x","i">>,
    <<"e","x","i","t">>,
    <<"e","x","i","t",SP,"x">>,
    <<"h","e","l","p">>,
    <<"l","s">> }

\* programs on the search path, and existing directories
Programs == { <<"l","s">> }
Dirs == { <<"d">>, <<"e">> }
InitialDir == <<"/">>

IsPrefix(p, l) == Len(p) <= Len(l) /\ SubSeq(l, 1, Len(p)) = p

\* the characters that may follow the characters typed so far on this line
NextChars(typed) ==
  { l[Len(typed) + 1] : l \in { m \in ScriptLines : IsPrefix(typed, m) /\ Len(m) > Len(typed) } }

VARIABLES
  pc,            \* where the interpreter process is
  exitSite,      \* the place the interpreter process ended at ("none": running)
  exitStatus,    \* its exit status
  nLines,        \* newline characters read so far
  dispatched,    \* the argument lists lsh_execute was called with, in order
  rl_bufsize,    \* lsh_read_line: bufsize
  rl_position,   \* lsh_read_line: position
  rl_c,          \* lsh_read_line: c, the last result of getchar
  buffer,        \* lsh_read_line: what has been written to buffer[0..]
  lineMem,       \* the line buffer's allocation: "none", "alloc", "freed"
  tok_bufsize,   \* lsh_split_line: bufsize
  tok_position,  \* lsh_split_line: position
  tokens,        \* lsh_split_line: what has been written to tokens[0..]
  token,         \* lsh_split_line: token (strtok's last result)
  save,          \* strtok's static pointer: the rest of the line
  argsMem,       \* the token array's allocation: "none", "alloc", "freed"
  status,        \* lsh_loop: status
  pid,           \* lsh_launch: pid
  launch_status, \* lsh_launch: status ("uninit" until waitpid writes it)
  cwd,           \* the interpreter's working directory
  children,      \* the processes forked by lsh_launch the kernel still knows
  nForked,       \* successful forks so far
  err,           \* the error stream
  out,           \* the output stream
  sigchldIgn     \* SIGCHLD's disposition is SIG_IGN (inherited through exec)

vars == << pc, exitSite, exitStatus, nLines, dispatched, rl_bufsize, rl_position, rl_c, buffer,
           lineMem, tok_bufsize, tok_position, tokens, token, save, argsMem,
           status, pid, launch_status, cwd, children, nForked, err, out,
           sigchldIgn >>

rlVars    == << rl_bufsize, rl_position, rl_c, buffer, lineMem >>
tokVars   == << tok_bufsize, tok_position, tokens, token, save, argsMem >>
procVars  == << pid, launch_status, children, nForked >>
exitVars  == << exitSite, exitStatus >>


(***************************************************************************)
(* Helpers.                                                                *)
(***************************************************************************)
\* arr[i] = v for a C array kept as the sequence of its written slots
Store(arr, i, v) ==
  IF i < Len(arr) THEN [arr EXCEPT ![i + 1] = v]
  ELSE IF i = Len(arr) THEN Append(arr, v)
  ELSE arr

RECURSIVE NulIndex(_, _)
\* the index (from 1) of the first NUL of buf at or after i; Len(buf)+1 if none
NulIndex(buf, i) ==
  IF i > Len(buf) \/ buf[i] = NUL THEN i ELSE NulIndex(buf, i + 1)

\* the C string a char* to buf[0] denotes: the characters before the first NUL
CStr(buf) == SubSeq(buf, 1, NulIndex(buf, 1) - 1)

\* exit(code), or main's return: the interpreter process ends
ExitAt(site, code) ==
  /\ pc' = "exited"
  /\ exitSite' = site
  /\ exitStatus' = code

\* a line on a stream: who wrote it (0: the interpreter, else the child's pid)
Msg(who, text) == [who |-> who, msg |-> text]

\* an allocation failure that is reported and ends the process with success
AllocationErrorExitsSuccess(site) ==
  /\ err' = Append(err, Msg(0, "lsh: allocation error"))
  /\ ExitAt(site, EXIT_SUCCESS)

\* fprintf(stderr, "lsh: allocation error\n"); exit(EXIT_FAILURE);
AllocationError(site) ==
  /\ err' = Append(err, Msg(0, "lsh: allocation error"))
  /\ ExitAt(site, EXIT_FAILURE)

(***************************************************************************)
(* lsh_loop, first half: the prompt and lsh_read_line.                     *)
(***************************************************************************)
\* printf("> ");
Prompt ==
  /\ pc = "prompt"
  /\ out' = Append(out, "> ")
  /\ pc' = "rl_malloc"
  /\ UNCHANGED << exitVars, nLines, dispatched, rlVars, tokVars, status, procVars, cwd, err,
                  sigchldIgn >>

\* char *buffer = malloc(sizeof(char) * bufsize); if (!buffer) {...}
ReadLineMalloc(ok) ==
  /\ pc = "rl_malloc"
  /\ IF ok
       THEN /\ rl_bufsize' = LSH_RL_BUFSIZE
            /\ rl_position' = 0
            /\ buffer' = <<>>
            /\ UNCHANGED rl_c
            /\ lineMem' = "alloc"
            /\ pc' = "getchar"
            /\ UNCHANGED << exitVars, err >>
       ELSE /\ AllocationError("rl_malloc")
            /\ UNCHANGED rlVars
  /\ UNCHANGED << nLines, dispatched, tokVars, status, procVars, cwd, out, sigchldIgn >>

\* end-of-input that hands over the characters read so far as a line
ReadEofReturnsPartialLine ==
  IF rl_position > 0
    THEN /\ buffer' = Store(buffer, rl_position, NUL)
         /\ pc' = "split_malloc"
         /\ UNCHANGED << exitVars, nLines, rl_bufsize, rl_position, lineMem, err >>
    ELSE /\ ExitAt("read_eof", EXIT_SUCCESS)
         /\ UNCHANGED << nLines, rl_bufsize, rl_position, buffer, lineMem, err >>

\* end-of-input taken for an error
ReadEofExitsFailure ==
  /\ ExitAt("read_eof", EXIT_FAILURE)
  /\ UNCHANGED << nLines, rl_bufsize, rl_position, buffer, lineMem, err >>

\* c == EOF: exit(EXIT_SUCCESS);
ReadEof ==
  /\ ExitAt("read_eof", EXIT_SUCCESS)
  /\ UNCHANGED << nLines, rl_bufsize, rl_position, buffer, lineMem, err >>

\* c == '\n': buffer[position] = '\0'; return buffer;
ReadNewline ==
  /\ buffer' = Store(buffer, rl_position, NUL)
  /\ nLines' = nLines + 1
  /\ pc' = "split_malloc"
  /\ UNCHANGED << exitVars, rl_bufsize, rl_position, lineMem, err >>

\* a growth test that lets position reach bufsize
BufferOverfull(position, bufsize) == position > bufsize

\* if (position >= bufsize): the test, after position++, that grows a buffer
BufferFull(position, bufsize) == position >= bufsize

\* buffer[position] = c; position++; if (position >= bufsize) {realloc ...}
ReadStore(ch, ok) ==
  /\ buffer' = Store(buffer, rl_position, ch)
  /\ rl_position' = rl_position + 1
  /\ UNCHANGED nLines
  /\ IF BufferFull(rl_position', rl_bufsize)
       THEN IF ok
              THEN /\ rl_bufsize' = rl_bufsize + LSH_RL_BUFSIZE
                   /\ pc' = "getchar"
                   /\ UNCHANGED << exitVars, lineMem, err >>
              ELSE \* buffer = realloc(...) is NULL: the old block is lost
                   /\ AllocationError("rl_realloc")
                   /\ UNCHANGED << rl_bufsize, lineMem >>
       ELSE /\ ok
            /\ pc' = "getchar"
            /\ UNCHANGED << exitVars, rl_bufsize, lineMem, err >>

\* what getchar may return: end-of-input at any time; otherwise the next
\* character of a script line, or the newline that ends one
InputAllows(ch) ==
  \/ ch = EOF
  \/ /\ nLines < MaxLines
     /\ \/ ch = LF /\ buffer \in ScriptLines
        \/ ch \in NextChars(buffer)

\* one round of lsh_read_line's while (1): c = getchar(); ...
GetChar(ch, ok) ==
  /\ pc = "getchar"
  /\ InputAllows(ch)
  /\ rl_c' = ch
  /\ IF ch = EOF THEN ok /\ ReadEof
     ELSE IF ch = LF THEN ok /\ ReadNewline
     ELSE ReadStore(ch, ok)
  /\ UNCHANGED << dispatched, tokVars, status, procVars, cwd, out, sigchldIgn >>

(***************************************************************************)
(* lsh_split_line and strtok.                                              *)
(***************************************************************************)
RECURSIVE SkipDelims(_)
\* strtok's first scan: past the leading delimiters of s
SkipDelims(s) ==
  IF s = <<>> \/ Head(s) \notin LSH_TOK_DELIM THEN s ELSE SkipDelims(Tail(s))

RECURSIVE TokLen(_)
\* strtok's second scan: the length of the run of non-delimiters s starts with
TokLen(s) ==
  IF s = <<>> \/ Head(s) \in LSH_TOK_DELIM THEN 0 ELSE 1 + TokLen(Tail(s))

\* strtok on the string s (the line on the first call, the saved rest after):
\* the token found, and the rest after the delimiter it overwrote with NUL
strtok(s) ==
  LET t == SkipDelims(s)
      n == TokLen(t)
  IN  IF t = <<>>
        THEN [token |-> NULL, save |-> <<>>]
        ELSE [token |-> Ptr(SubSeq(t, 1, n)),
              save  |-> IF n < Len(t) THEN SubSeq(t, n + 2, Len(t)) ELSE <<>>]

\* char **tokens = malloc(bufsize * sizeof(char*)); if (!tokens) {...}
\* token = strtok(line, LSH_TOK_DELIM);
SplitMalloc(ok) ==
  /\ pc = "split_malloc"
  /\ IF ok
       THEN /\ tok_bufsize' = LSH_TOK_BUFSIZE
            /\ tok_position' = 0
            /\ tokens' = <<>>
            /\ argsMem' = "alloc"
            /\ token' = strtok(CStr(buffer)).token
            /\ save' = strtok(CStr(buffer)).save
            /\ pc' = "split_loop"
            /\ UNCHANGED << exitVars, err >>
       ELSE /\ AllocationError("tok_malloc")
            /\ UNCHANGED tokVars
  /\ UNCHANGED << nLines, dispatched, rlVars, status, procVars, cwd, out, sigchldIgn >>

\* while (token != NULL) { tokens[position] = token; position++;
\*   if (position >= bufsize) {realloc ...}  token = strtok(NULL, ...); }
SplitToken(ok) ==
  /\ tokens' = Store(tokens, tok_position, token)
  /\ tok_position' = tok_position + 1
  /\ IF BufferFull(tok_position', tok_bufsize)
       THEN IF ok
              THEN /\ tok_bufsize' = tok_bufsize + LSH_TOK_BUFSIZE
                   /\ token' = strtok(save).token
                   /\ save' = strtok(save).save
                   /\ pc' = "split_loop"
                   /\ UNCHANGED << exitVars, argsMem, err >>
              ELSE \* free(tokens_backup); ... exit(EXIT_FAILURE);
                   /\ argsMem' = "freed"
                   /\ AllocationError("tok_realloc")
                   /\ UNCHANGED << tok_bufsize, token, save >>
       ELSE /\ ok
            /\ token' = strtok(save).token
            /\ save' = strtok(save).save
            /\ pc' = "split_loop"
            /\ UNCHANGED << exitVars, tok_bufsize, argsMem, err >>

\* tokens[position] = NULL; return tokens;
SplitReturn ==
  /\ tokens' = Store(tokens, tok_position, NULL)
  /\ pc' = "execute"
  /\ UNCHANGED << exitVars, tok_bufsize, tok_position, token, save, argsMem, err >>

\* one test of lsh_split_line's while (token != NULL)
SplitLoop(ok) ==
  /\ pc = "split_loop"
  /\ IF token # NULL THEN SplitToken(ok) ELSE ok /\ SplitReturn
  /\ UNCHANGED << nLines, dispatched, rlVars, status, procVars, cwd, out, sigchldIgn >>

(***************************************************************************)
(* The builtins and lsh_execute.                                           *)
(***************************************************************************)
builtin_str == << <<"c","d">>, <<"h","e","l","p">>, <<"e","x","i","t">> >>

lsh_num_builtins == Len(builtin_str)

\* args[i]
Arg(i) == tokens[i + 1]

\* chdir(path) == 0
chdir_ok(path) == path \in Dirs

\* a cd that takes one argument and no more: with further arguments it
\* reports and leaves the directory alone
lsh_cd_rejects_more_arguments ==
  /\ IF Arg(1) = NULL
       THEN /\ err' = Append(err, Msg(0, "lsh: expected argument to \"cd\""))
            /\ cwd' = cwd
       ELSE IF Arg(2) # NULL
              THEN /\ err' = Append(err, Msg(0, "lsh: too many arguments to \"cd\""))
                   /\ cwd' = cwd
       ELSE IF chdir_ok(Arg(1).s)
              THEN /\ cwd' = Arg(1).s
                   /\ err' = err
              ELSE /\ err' = Append(err, Msg(0, "lsh: chdir failed"))
                   /\ cwd' = cwd
  /\ out' = out
  /\ status' = 1

\* a cd whose failure ends the loop
lsh_cd_failure_stops ==
  /\ IF Arg(1) = NULL
       THEN /\ err' = Append(err, Msg(0, "lsh: expected argument to \"cd\""))
            /\ cwd' = cwd
            /\ status' = 0
       ELSE IF chdir_ok(Arg(1).s)
              THEN /\ cwd' = Arg(1).s
                   /\ err' = err
                   /\ status' = 1
              ELSE /\ err' = Append(err, Msg(0, "lsh: chdir failed"))
                   /\ cwd' = cwd
                   /\ status' = 0
  /\ out' = out

\* int lsh_cd(char **args)
lsh_cd ==
  /\ IF Arg(1) = NULL
       THEN /\ err' = Append(err, Msg(0, "lsh: expected argument to \"cd\""))
            /\ cwd' = cwd
       ELSE IF chdir_ok(Arg(1).s)
              THEN /\ cwd' = Arg(1).s
                   /\ err' = err
              ELSE /\ err' = Append(err, Msg(0, "lsh: chdir failed"))
                   /\ cwd' = cwd
  /\ out' = out
  /\ status' = 1

\* int lsh_help(char **args)
lsh_help ==
  /\ out' = out \o << "Stephen Brennan's LSH",
                      "Type program names and arguments, and hit enter.",
                      "The following are built in:" >>
                \o [i \in 1..lsh_num_builtins |-> builtin_str[i]]
                \o << "Use the man command for information on other programs." >>
  /\ UNCHANGED << cwd, err >>
  /\ status' = 1

\* an exit builtin that returns 1
lsh_exit_continues ==
  /\ UNCHANGED << cwd, err, out >>
  /\ status' = 1

\* int lsh_exit(char **args)
lsh_exit ==
  /\ UNCHANGED << cwd, err, out >>
  /\ status' = 0

\* (*builtin_func[i])(args)
builtin_func(i) ==
  CASE i = 1 -> lsh_cd
    [] i = 2 -> lsh_help
    [] i = 3 -> lsh_exit

\* a comparison of only as many characters as the builtin's name has
MatchesPrefix(name) ==
  { i \in 1..lsh_num_builtins : IsPrefix(builtin_str[i], name) }

\* the indexes i with strcmp(name, builtin_str[i]) == 0
Matches(name) == { i \in 1..lsh_num_builtins : builtin_str[i] = name }

\* the first of a non-empty set of indexes: the for loop returns at it
First(S) == CHOOSE i \in S : \A j \in S : i <= j

\* the strings of the argument list args[0..] up to its NULL
ArgList == [i \in 1..(Len(tokens) - 1) |-> tokens[i].s]

\* a dispatcher without the test for an empty command
ExecuteWithoutEmptyTest ==
  /\ pc = "execute"
  /\ dispatched' = Append(dispatched, ArgList)
  /\ IF Matches(Arg(0).s) # {}
       THEN /\ builtin_func(First(Matches(Arg(0).s)))
            /\ pc' = "free"
       ELSE /\ pc' = "fork"
            /\ UNCHANGED << status, cwd, err, out >>
  /\ UNCHANGED << exitVars, nLines, rlVars, tokVars, procVars, sigchldIgn >>

\* int lsh_execute(char **args), up to the call of lsh_launch
Execute ==
  /\ pc = "execute"
  /\ dispatched' = Append(dispatched, ArgList)
  /\ IF Arg(0) = NULL
       THEN /\ status' = 1
            /\ pc' = "free"
            /\ UNCHANGED << cwd, err, out >>
       ELSE IF Matches(Arg(0).s) # {}
              THEN /\ builtin_func(First(Matches(Arg(0).s)))
                   /\ pc' = "free"
              ELSE /\ pc' = "fork"
                   /\ UNCHANGED << status, cwd, err, out >>
  /\ UNCHANGED << exitVars, nLines, rlVars, tokVars, procVars, sigchldIgn >>

(***************************************************************************)
(* lsh_launch: fork, the child's branch, the parent's wait loop.           *)
(***************************************************************************)
\* a child that starts in the directory the interpreter was started in
NewChildInInitialDir(p) ==
  [pid |-> p, st |-> "forked", cwd |-> InitialDir, prog |-> Arg(0).s,
   stopPending |-> FALSE, nStops |-> 0, how |-> "none", code |-> "none"]

\* the child fork() creates: a copy of the interpreter inside lsh_launch
NewChild(p) ==
  [pid |-> p, st |-> "forked", cwd |-> cwd, prog |-> Arg(0).s,
   stopPending |-> FALSE, nStops |-> 0, how |-> "none", code |-> "none"]

\* a launcher that returns 0 for a child a signal killed
lsh_launch_return_stops_on_signal ==
  IF launch_status' = "signaled" THEN 0 ELSE 1

\* a launcher that returns 1 only for a child that exited
lsh_launch_return_by_child ==
  IF launch_status' = "exited" THEN 1 ELSE 0

\* return 1; at the end of lsh_launch
lsh_launch_return == 1

\* a failed fork that is not reported
ForkFailedSilently ==
  /\ pid' = -1
  /\ err' = err
  /\ status' = lsh_launch_return
  /\ pc' = "free"
  /\ UNCHANGED << nForked, children >>

\* pid < 0: perror("lsh"); and the return
ForkFailed ==
  /\ pid' = -1
  /\ err' = Append(err, Msg(0, "lsh: fork failed"))
  /\ status' = lsh_launch_return
  /\ pc' = "free"
  /\ UNCHANGED << nForked, children >>

\* pid = fork(); and the branch on pid
Fork(ok) ==
  /\ pc = "fork"
  /\ launch_status' = "uninit"
  /\ IF ok
       THEN /\ pid' = nForked + 1
            /\ nForked' = nForked + 1
            /\ children' = children \cup {NewChild(nForked + 1)}
            /\ pc' = "wait"
            /\ UNCHANGED << status, err >>
       ELSE ForkFailed
  /\ UNCHANGED << exitVars, nLines, dispatched, rlVars, tokVars, cwd, out, sigchldIgn >>

\* the kernel's handling of child c ending: a zombie until it is waited for,
\* or, with SIGCHLD ignored, gone at once
Terminate(c, how, code) ==
  children' =
    IF sigchldIgn
      THEN children \ {c}
      ELSE (children \ {c}) \cup
           {[c EXCEPT !.st = "zombie", !.how = how, !.code = code,
                      !.stopPending = FALSE]}

childFrame == << pc, exitVars, nLines, dispatched, rlVars, tokVars, status, pid,
                 launch_status, nForked, cwd, out, sigchldIgn >>

\* execvp(args[0], args) succeeds: the child runs the program
ChildExec(c) ==
  /\ c \in children /\ c.st = "forked"
  /\ c.prog \in Programs
  /\ children' = (children \ {c}) \cup {[c EXCEPT !.st = "running"]}
  /\ UNCHANGED << childFrame, err >>

\* execvp(...) == -1: perror("lsh");
ChildExecFails(c) ==
  /\ c \in children /\ c.st = "forked"
  /\ c.prog \notin Programs
  /\ err' = Append(err, Msg(c.pid, "lsh: execvp failed"))
  /\ children' = (children \ {c}) \cup {[c EXCEPT !.st = "execfailed"]}
  /\ UNCHANGED childFrame

\* a child's branch without the exit: the child falls out of the if, returns
\* from lsh_launch and goes on in its copy of lsh_loop
ChildReturnsFromLaunch(k) ==
  children' = (children \ {k}) \cup {[k EXCEPT !.st = "free"]}

\* exit(EXIT_FAILURE); in the child's branch
ChildAfterExecFailure(c) ==
  Terminate(c, "exited", EXIT_FAILURE)

\* the child's step after the failed execvp's report
ChildExitFailure(c) ==
  /\ c \in children /\ c.st = "execfailed"
  /\ ChildAfterExecFailure(c)
  /\ UNCHANGED << childFrame, err >>

\* the program run by the child calls chdir(d): its own directory changes
ChildChdir(c, d) ==
  /\ c \in children /\ c.st = "running"
  /\ d \in Dirs /\ d # c.cwd
  /\ children' = (children \ {c}) \cup {[c EXCEPT !.cwd = d]}
  /\ UNCHANGED << childFrame, err >>

\* the program ends on its own with an exit code
ChildExits(c, code) ==
  /\ c \in children /\ c.st = "running"
  /\ Terminate(c, "exited", code)
  /\ UNCHANGED << childFrame, err >>

\* a signal kills the child
ChildKilled(c) ==
  /\ c \in children /\ c.st \in {"forked", "execfailed", "running", "stopped"}
  /\ Terminate(c, "signaled", "none")
  /\ UNCHANGED << childFrame, err >>

\* a stop signal stops the running program
ChildStops(c) ==
  /\ c \in children /\ c.st = "running"
  /\ c.nStops < MaxStops
  /\ children' = (children \ {c}) \cup
       {[c EXCEPT !.st = "stopped", !.stopPending = TRUE, !.nStops = c.nStops + 1]}
  /\ UNCHANGED << childFrame, err >>

\* SIGCONT resumes it; a stop not yet waited for is no longer reported
ChildContinues(c) ==
  /\ c \in children /\ c.st = "stopped"
  /\ children' = (children \ {c}) \cup
       {[c EXCEPT !.st = "running", !.stopPending = FALSE]}
  /\ UNCHANGED << childFrame, err >>

\* what an uninitialised int status may hold, as the W* macros see it
StatusValues == {"exited", "signaled", "stopped"}

\* a wait loop that ends on any report, a stop included
WaitDoneOnAnyReport(st) == st \in {"exited", "signaled", "stopped"}

\* !(!WIFEXITED(status) && !WIFSIGNALED(status)): the do/while ends
WaitDone(st) == st \in {"exited", "signaled"}

\* the set of children with the pid waited for
Waited == { c \in children : c.pid = pid }

\* waitpid(pid, &status, WUNTRACED) returns, and the while condition is tested.
\* The call blocks while the child runs (or stays stopped, its stop reported);
\* it fails, writing nothing, when the kernel knows no such child.
WaitPid(garbage) ==
  /\ pc = "wait"
  /\ \/ \E c \in Waited :
          /\ c.st = "zombie"
          /\ garbage = c.how
          /\ launch_status' = c.how
          /\ children' = children \ {c}
     \/ \E c \in Waited :
          /\ c.st = "stopped" /\ c.stopPending
          /\ garbage = "stopped"
          /\ launch_status' = "stopped"
          /\ children' = (children \ {c}) \cup {[c EXCEPT !.stopPending = FALSE]}
     \/ /\ Waited = {}
        /\ IF launch_status = "uninit"
             THEN launch_status' = garbage
             ELSE garbage = launch_status /\ launch_status' = launch_status
        /\ UNCHANGED children
  /\ IF WaitDone(launch_status')
       THEN /\ status' = lsh_launch_return
            /\ pc' = "free"
       ELSE /\ pc' = "wait"
            /\ UNCHANGED status
  /\ UNCHANGED << exitVars, nLines, dispatched, rlVars, tokVars, pid, nForked, cwd, err, out,
                  sigchldIgn >>

(***************************************************************************)
(* lsh_loop, second half, and main.                                        *)
(***************************************************************************)
\* an end of iteration that releases the line but not the token array
FreeLineOnly ==
  /\ pc = "free"
  /\ lineMem' = "freed"
  /\ argsMem' = argsMem
  /\ IF status # 0
       THEN pc' = "prompt" /\ UNCHANGED exitVars
       ELSE ExitAt("main_return", EXIT_SUCCESS)
  /\ UNCHANGED << nLines, dispatched, rl_bufsize, rl_position, rl_c, buffer, tok_bufsize,
                  tok_position, tokens, token, save, status, procVars, cwd, err,
                  out, sigchldIgn >>

\* free(line); free(args); } while (status);  and main's return EXIT_SUCCESS
Free ==
  /\ pc = "free"
  /\ lineMem' = "freed"
  /\ argsMem' = "freed"
  /\ IF status # 0
       THEN pc' = "prompt" /\ UNCHANGED exitVars
       ELSE ExitAt("main_return", EXIT_SUCCESS)
  /\ UNCHANGED << nLines, dispatched, rl_bufsize, rl_position, rl_c, buffer, tok_bufsize,
                  tok_position, tokens, token, save, status, procVars, cwd, err,
                  out, sigchldIgn >>

(***************************************************************************)
(* The interpreter from its start.  lsh_loop's status is indeterminate     *)
(* (-1 here) until lsh_execute first returns.  main.c never sets SIGCHLD's *)
(* disposition, so it is the one the process was started with: the default,*)
(* or SIG_IGN, which exec keeps.  The streams hold what the stdio calls    *)
(* were given, in order.                                                   *)
(***************************************************************************)
Init ==
  /\ pc = "prompt"
  /\ exitSite = "none"
  /\ exitStatus = "none"
  /\ nLines = 0
  /\ dispatched = <<>>
  /\ rl_bufsize = 0
  /\ rl_position = 0
  /\ rl_c = NUL
  /\ buffer = <<>>
  /\ lineMem = "none"
  /\ tok_bufsize = 0
  /\ tok_position = 0
  /\ tokens = <<>>
  /\ token = NULL
  /\ save = <<>>
  /\ argsMem = "none"
  /\ status = -1
  /\ pid = 0
  /\ launch_status = "uninit"
  /\ cwd = InitialDir
  /\ children = {}
  /\ nForked = 0
  /\ err = <<>>
  /\ out = <<>>
  /\ sigchldIgn \in BOOLEAN

InputChars == {EOF, LF, SP, "c", "d", "e", "h", "i", "l", "p", "s", "t", "x"}

Next ==
  \/ Prompt
  \/ \E ok \in BOOLEAN : ReadLineMalloc(ok)
  \/ \E c \in InputChars, ok \in BOOLEAN : GetChar(c, ok)
  \/ \E ok \in BOOLEAN : SplitMalloc(ok)
  \/ \E ok \in BOOLEAN : SplitLoop(ok)
  \/ Execute
  \/ \E ok \in BOOLEAN : Fork(ok)
  \/ \E c \in children : ChildExec(c)
  \/ \E c \in children : ChildExecFails(c)
  \/ \E c \in children : ChildExitFailure(c)
  \/ \E c \in children, d \in Dirs : ChildChdir(c, d)
  \/ \E c \in children, code \in {EXIT_SUCCESS, EXIT_FAILURE} : ChildExits(c, code)
  \/ \E c \in children : ChildKilled(c)
  \/ \E c \in children : ChildStops(c)
  \/ \E c \in children : ChildContinues(c)
  \/ \E g \in StatusValues : WaitPid(g)
  \/ Free

Spec == Init /\ [][Next]_vars

(***************************************************************************)
(* lsh_split_line on its own: every line up to MaxLineLen over the five    *)
(* delimiters and two other characters, as lsh_read_line would hand it     *)
(* over in the first round of the loop.                                    *)
(***************************************************************************)
SplitAlphabet == {SP, TAB, CR, LF, BEL, "a", "b"}

SplitLines == UNION { [1..k -> SplitAlphabet] : k \in 0..MaxLineLen }

InitSplit ==
  /\ pc = "split_malloc"
  /\ exitSite = "none"
  /\ exitStatus = "none"
  /\ nLines = 1
  /\ dispatched = <<>>
  /\ rl_c = LF
  /\ \E l \in SplitLines :
       /\ buffer = Append(l, NUL)
       /\ rl_position = Len(l)
       /\ rl_bufsize = LSH_RL_BUFSIZE * ((Len(l) \div LSH_RL_BUFSIZE) + 1)
  /\ lineMem = "alloc"
  /\ tok_bufsize = 0
  /\ tok_position = 0
  /\ tokens = <<>>
  /\ token = NULL
  /\ save = <<>>
  /\ argsMem = "none"
  /\ status = -1
  /\ pid = 0
  /\ launch_status = "uninit"
  /\ cwd = InitialDir
  /\ children = {}
  /\ nForked = 0
  /\ err = <<>>
  /\ out = << "> " >>
  /\ sigchldIgn = FALSE

NextSplit ==
  \/ \E ok \in BOOLEAN : SplitMalloc(ok)
  \/ \E ok \in BOOLEAN : SplitLoop(ok)

SplitSpec == InitSplit /\ [][NextSplit]_vars

(***************************************************************************)
(* Properties.                                                             *)
(***************************************************************************)
\* the interpreter is at its prompt/read step
AtPrompt == pc \in {"prompt", "rl_malloc", "getchar"}

\* C1: launch-and-wait is synchronous.  While lsh_loop is at its prompt/read
\* step no child of lsh_launch is alive or unreaped; at most one child
\* exists at any time; a child exists only while lsh_launch waits for it,
\* and it is the one that call forked; no line forks more than once.
C1_LaunchIsSynchronous ==
  /\ AtPrompt => children = {}
  /\ Cardinality(children) <= 1
  /\ \A k \in children : pc = "wait" /\ k.pid = pid /\ pid = nForked
  /\ nForked <= nLines

\* two external commands in a row have run, and the prompt is back
C1_Witness ==
  /\ pc = "prompt"
  /\ nLines = 2
  /\ nForked = 2
  /\ children = {}

\* the child lsh_launch waits for has ended: a zombie, or gone already
ChildEnded == \A k \in Waited : k.st = "zombie"

\* C2: a child reported as merely stopped never ends the wait, and the
\* parent leaves the do/while only after a status query (a waitpid call
\* that succeeds) reports the child as exited or killed by a signal.
C2_LeavesOnlyOnTerminationReport ==
  /\ [][ (pc = "wait" /\ \E k \in Waited : k.st = "stopped")
           => pc' = "wait" ]_vars
  /\ [][ (pc = "wait" /\ pc' # "wait")
           => \E k \in Waited : /\ k.st = "zombie"
                                /\ k \notin children'
                                /\ launch_status' = k.how ]_vars

\* C3: once the child of an external command has ended, lsh_launch returns
\* (and the loop prompts again): while it waits for a child that has ended,
\* the next round of the wait loop can leave the loop.  A child that has not
\* ended keeps the interpreter in the wait loop.
C3_LaunchReturnsAfterChildEnds ==
  (pc = "wait" /\ ChildEnded)
     => ENABLED (\E g \in StatusValues : WaitPid(g) /\ pc' = "free")

\* strcmp(args[0], name) == 0 for the token sequence last split
FirstTokenIs(name) == tokens # <<>> /\ tokens[1] = Ptr(name)

\* args[0] names neither nothing nor a builtin: lsh_launch gets it
ExternalCommand ==
  tokens # <<>> /\ tokens[1] # NULL /\ Matches(tokens[1].s) = {}

\* the exit(EXIT_FAILURE) calls after a failed allocation
AllocSites == {"rl_malloc", "rl_realloc", "tok_malloc", "tok_realloc"}

\* the positions of lsh_loop and of what it calls in the interpreter
LoopPositions ==
  {"prompt", "rl_malloc", "getchar", "split_malloc", "split_loop", "execute",
   "fork", "wait", "free"}

\* once the interpreter process has ended nothing happens any more: no line
\* is read, no command dispatched, no child forked
NoStepAfterExit == [][pc # "exited"]_vars

\* C4: a token sequence whose first token is "exit" makes lsh_execute return
\* 0 whatever else holds; the loop then frees its buffers and the interpreter
\* ends with success status, having read no further line and forked no child.
C4_ExitTerminates ==
  /\ [][ (pc = "execute" /\ FirstTokenIs(<<"e","x","i","t">>))
           => (pc' = "free" /\ status' = 0 /\ children' = {}
               /\ UNCHANGED << cwd, nForked, nLines >>) ]_vars
  /\ [][ (pc = "free" /\ status = 0)
           => (pc' = "exited" /\ exitSite' = "main_return"
               /\ exitStatus' = EXIT_SUCCESS /\ children' = {}
               /\ UNCHANGED << cwd, nForked, nLines >>) ]_vars
  /\ [](exitSite = "main_return" => exitStatus = EXIT_SUCCESS)
  /\ NoStepAfterExit

\* "exit x" ended the interpreter after a launch and a change of directory
C4_Witness ==
  /\ pc = "exited"
  /\ exitSite = "main_return"
  /\ FirstTokenIs(<<"e","x","i","t">>)
  /\ Len(tokens) = 3
  /\ cwd = <<"d">>
  /\ nForked = 1

\* C5: every dispatch whose first token is not "exit" yields 1 and the loop
\* goes on to the next prompt; the interpreter ends only through the exit
\* builtin, end-of-input or a failed allocation.
C5_OnlyExitTerminates ==
  /\ []((pc = "free" /\ ~FirstTokenIs(<<"e","x","i","t">>)) => status = 1)
  /\ [][ (pc = "free" /\ status = 1) => pc' = "prompt" ]_vars
  /\ [](pc = "exited"
          => \/ exitSite = "main_return" /\ FirstTokenIs(<<"e","x","i","t">>)
             \/ exitSite = "read_eof"
             \/ exitSite \in AllocSites)

\* the loop prompts again after a failed cd and a child killed by a signal
C5_Witness ==
  /\ pc = "prompt"
  /\ nLines = 2
  /\ launch_status = "signaled"
  /\ \E i \in DOMAIN err : err[i] = Msg(0, "lsh: chdir failed")

\* the error reports child p wrote
ReportsOf(p) == { i \in DOMAIN err : err[i].who = p }

C7_ForkFailure ==
  /\ [][ (pc = "fork" /\ pc' # "fork" /\ pid' < 0)
           => /\ err' = Append(err, Msg(0, "lsh: fork failed"))
              /\ pc' = "free"
              /\ status' = 1
              /\ children' = {}
              /\ UNCHANGED << cwd, nForked, out, exitSite, exitStatus >> ]_vars
  /\ [][ (pc = "fork" /\ pc' = "wait") => pid' > 0 ]_vars
  /\ []((pc = "free" /\ ExternalCommand /\ pid < 0)
          => (children = {} /\ status = 1 /\ exitSite = "none"))

\* a fork failed after a successful cd
C7_Witness ==
  /\ pc = "free"
  /\ ExternalCommand
  /\ pid < 0
  /\ cwd = <<"d">>
  /\ err = << Msg(0, "lsh: fork failed") >>

\* C8: end-of-input on the read step ends the interpreter with success
\* status in every reachable state; the step dispatches nothing and forks
\* nothing, and nothing happens after it.
C8_EofTerminates ==
  /\ [](rl_c = EOF => (pc = "exited" /\ exitSite = "read_eof"
                       /\ exitStatus = EXIT_SUCCESS /\ children = {}))
  /\ [](exitSite = "read_eof" => rl_c = EOF)
  /\ [][ (rl_c' = EOF /\ rl_c # EOF)
           => (pc = "getchar"
               /\ UNCHANGED << tokens, status, nForked, nLines, cwd, err, out >>) ]_vars
  /\ NoStepAfterExit

\* end-of-input in the middle of a line, after two commands, one external
C8_Witness ==
  /\ rl_c = EOF
  /\ nLines = 2
  /\ nForked = 1
  /\ rl_position = 2

\* C9: a failed allocation in lsh_read_line or lsh_split_line ends the
\* interpreter at once with failure status, after one report: the step
\* dispatches nothing and forks nothing, and nothing happens after it.
C9_AllocFailureIsFatal ==
  /\ [](exitSite \in AllocSites
          => (pc = "exited" /\ exitStatus = EXIT_FAILURE /\ children = {}
              /\ err # <<>>
              /\ err[Len(err)] = Msg(0, "lsh: allocation error")))
  /\ [][ (exitSite = "none" /\ exitSite' \in AllocSites)
           => (pc \in {"rl_malloc", "getchar", "split_malloc", "split_loop"}
               /\ UNCHANGED << status, nForked, nLines, cwd, out >>) ]_vars
  /\ [](exitStatus = EXIT_FAILURE => exitSite \in AllocSites)
  /\ NoStepAfterExit

\* the token array could not grow, on the second line, after a launch
C9_Witness ==
  /\ exitSite = "tok_realloc"
  /\ nLines = 2
  /\ nForked = 1

\* the delimiters the tokenizer's contract names
Delimiters == {SP, TAB, CR, LF, BEL}

\* the line lsh_split_line was given
Line == CStr(buffer)

\* where the maximal runs of non-delimiters of l start
RunStarts(l) ==
  { i \in 1..Len(l) : l[i] \notin Delimiters /\ (i = 1 \/ l[i - 1] \in Delimiters) }

\* where the run that starts at i ends
RunEnd(l, i) ==
  CHOOSE j \in i..Len(l) :
    /\ \A m \in i..j : l[m] \notin Delimiters
    /\ j = Len(l) \/ l[j + 1] \in Delimiters

\* the k-th start from the left
KthStart(l, k) ==
  CHOOSE i \in RunStarts(l) : Cardinality({ j \in RunStarts(l) : j < i }) = k - 1

\* the maximal runs of non-delimiters of l, left to right
MaximalRuns(l) ==
  [k \in 1..Cardinality(RunStarts(l)) |->
     SubSeq(l, KthStart(l, k), RunEnd(l, KthStart(l, k)))]

\* C10: lsh_split_line returns exactly the maximal runs of non-delimiter
\* characters of its line, left to right, with NULL right after the last:
\* every token is non-empty and holds no delimiter, and a line of delimiters
\* only (or of no character) gives the empty sequence.
C10_SplitGivesMaximalRuns ==
  pc = "execute" =>
    LET runs == MaximalRuns(Line)
        n == Len(runs)
    IN  /\ tok_position = n
        /\ Len(tokens) = n + 1
        /\ tokens[n + 1] = NULL
        /\ \A k \in 1..n : tokens[k] = Ptr(runs[k])
        /\ \A k \in 1..n :
             /\ tokens[k] # NULL
             /\ tokens[k].s # <<>>
             /\ \A m \in 1..Len(tokens[k].s) : tokens[k].s[m] \notin Delimiters
        /\ (\A i \in 1..Len(Line) : Line[i] \in Delimiters) => tokens = << NULL >>

\* a line with a leading delimiter, a run of two delimiters inside and a
\* bell, split into its two tokens
C10_Witness ==
  /\ pc = "execute"
  /\ Line = << SP, "a", BEL, TAB, "b" >>
  /\ tokens = << Ptr(<<"a">>), Ptr(<<"b">>), NULL >>

\* C11: dispatching an empty token sequence yields 1 and changes nothing: no
\* child is created, the working directory stays, no builtin's effect shows,
\* nothing is written to the output or the error stream; the loop then frees
\* and prompts again.
C11_EmptyCommandIsNoOp ==
  /\ [][ (pc = "execute" /\ tokens = << NULL >>) =>
           /\ status' = 1
           /\ pc' = "free"
           /\ UNCHANGED << cwd, children, nForked, pid, launch_status, err, out,
                           exitSite, exitStatus >> ]_vars
  /\ [][ (pc = "free" /\ tokens = << NULL >>) =>
           (pc' = "prompt" /\ UNCHANGED << cwd, children, nForked, err, out >>) ]_vars

\* an empty line dispatched after a cd that changed the directory
C11_Witness ==
  /\ pc = "free"
  /\ tokens = << NULL >>
  /\ dispatched = << << <<"c","d">>, <<"d">> >>, <<>> >>
  /\ cwd = <<"d">>
  /\ status = 1

\* the three names the claims give the builtins
CdName == <<"c","d">>
HelpName == <<"h","e","l","p">>
ExitName == <<"e","x","i","t">>

\* the child a step forks, if it forks one
Forked == { k \in children' : \A c \in children : c.pid # k.pid }

\* C12: a non-empty token sequence takes exactly one path.  When its first
\* token is exactly cd, help or exit, that builtin's handler runs once on the
\* whole sequence and no child is created; for any other first token (cdx and
\* exi among them) no builtin's effect shows and lsh_launch runs once, forking
\* at most one child, for that token; lsh_loop's status is the value the path
\* taken returned.
C12_DispatchTakesOnePath ==
  /\ [][ (pc = "execute" /\ tokens # << NULL >>) =>
           /\ dispatched' = Append(dispatched, ArgList)
           /\ UNCHANGED << children, nForked, pid >>
           /\ \/ /\ FirstTokenIs(CdName)
                 /\ pc' = "free" /\ status' = 1 /\ out' = out
                 /\ \/ cwd' = cwd /\ Len(err') = Len(err) + 1
                    \/ err' = err /\ Len(ArgList) >= 2 /\ cwd' = ArgList[2]
              \/ /\ FirstTokenIs(HelpName)
                 /\ pc' = "free" /\ status' = 1
                 /\ UNCHANGED << cwd, err >>
                 /\ Len(out') = Len(out) + 7
                 /\ out'[Len(out) + 1] = "Stephen Brennan's LSH"
                 /\ out'[Len(out) + 4] = CdName
                 /\ out'[Len(out) + 5] = HelpName
                 /\ out'[Len(out) + 6] = ExitName
              \/ /\ FirstTokenIs(ExitName)
                 /\ pc' = "free" /\ status' = 0
                 /\ UNCHANGED << cwd, err, out >>
              \/ /\ tokens[1].s \notin {CdName, HelpName, ExitName}
                 /\ pc' = "fork"
                 /\ UNCHANGED << status, cwd, err, out >> ]_vars
  /\ [][ pc = "fork" =>
           /\ UNCHANGED << cwd, out, dispatched >>
           /\ \/ /\ pc' = "wait"
                 /\ nForked' = nForked + 1
                 /\ \E k \in Forked : Forked = {k} /\ k.prog = tokens[1].s
                 /\ UNCHANGED << status, err >>
              \/ /\ pc' = "free" /\ status' = 1
                 /\ UNCHANGED << children, nForked >> ]_vars
  /\ []((pc = "free" /\ tokens # << NULL >>
           /\ tokens[1].s \notin {CdName, HelpName, ExitName}) => status = 1)

\* exi, then cdx: neither is a builtin, each went to lsh_launch, and the
\* child forked for cdx is being waited for
C12_Witness ==
  /\ pc = "wait"
  /\ dispatched = << << <<"e","x","i">> >>, << <<"c","d","x">> >> >>
  /\ nForked = 2
  /\ \E k \in children : k.pid = 2 /\ k.prog = <<"c","d","x">>
  /\ cwd = InitialDir
  /\ out = << "> ", "> " >>

\* what a failed cd leaves as it was, and what it returns
FailedCdFrame ==
  /\ cwd' = cwd
  /\ UNCHANGED << children, nForked, pid, out, exitSite, exitStatus >>
  /\ status' = 1
  /\ pc' = "free"

\* C13: a failed cd is reported and nothing more.  cd with no argument
\* writes the usage message to the error stream; cd whose chdir fails writes
\* the system's error message there; in both cases the working directory
\* stays, no child is created and the result is 1, so the prompt comes next.
C13_FailedCdIsNonFatal ==
  /\ [][ (pc = "execute" /\ tokens = << Ptr(CdName), NULL >>) =>
           /\ err' = Append(err, Msg(0, "lsh: expected argument to \"cd\""))
           /\ FailedCdFrame ]_vars
  /\ [][ (pc = "execute" /\ FirstTokenIs(CdName) /\ Len(tokens) > 2
            /\ tokens[2].s \notin Dirs) =>
           /\ err' = Append(err, Msg(0, "lsh: chdir failed"))
           /\ FailedCdFrame ]_vars
  /\ [][ (pc = "free" /\ FirstTokenIs(CdName)) =>
           (pc' = "prompt" /\ UNCHANGED << cwd, children, nForked, err, out >>) ]_vars

\* after cd d, a cd with no argument and a cd to a missing directory have
\* each left their report, and the directory is still d
C13_Witness ==
  /\ pc = "prompt"
  /\ dispatched = << << CdName, <<"d">> >>, << CdName >>, << CdName, <<"x">> >> >>
  /\ err = << Msg(0, "lsh: expected argument to \"cd\""), Msg(0, "lsh: chdir failed") >>
  /\ cwd = <<"d">>
  /\ nForked = 0

RECURSIVE LastCdTarget(_)
\* the directory the history h of dispatched commands leaves the interpreter
\* in: the argument of the last cd that named an existing directory, or the
\* initial directory when there is none
LastCdTarget(h) ==
  IF h = <<>> THEN InitialDir
  ELSE LET last == h[Len(h)]
       IN  IF Len(last) >= 2 /\ last[1] = CdName /\ last[2] \in Dirs
             THEN last[2]
             ELSE LastCdTarget(SubSeq(h, 1, Len(h) - 1))

\* C14: every child lsh_launch forks starts in the directory of the most
\* recent successful cd (the initial directory if there was none), whatever
\* failed cds, help commands, empty lines or earlier children that changed
\* their own directory came in between; and the interpreter itself is in
\* that directory at every moment.
C14_ChildInheritsDirectory ==
  /\ [][ \A k \in Forked : k.st = "forked" /\ k.cwd = LastCdTarget(dispatched) ]_vars
  /\ [](cwd = LastCdTarget(dispatched))
  /\ [][ (\E k \in children : k.st = "running") => cwd' = cwd ]_vars

\* a child starts in d: cd d succeeded, then cd x failed, then ls was launched
C14_Witness ==
  /\ pc = "wait"
  /\ dispatched = << << CdName, <<"d">> >>, << CdName, <<"x">> >>, << <<"l","s">> >> >>
  /\ \E k \in children : k.st = "forked" /\ k.cwd = <<"d">>

\* C15 as stated: the working directory changes only when the token sequence
\* is cd followed by exactly one token; cd with two or more arguments does
\* not change it to its first argument.
C15_CdTakesExactlyOneArgument ==
  [][ cwd' # cwd =>
        (pc = "execute" /\ FirstTokenIs(CdName) /\ Len(tokens) = 3) ]_vars

\* C15, amended: cd needs at least one argument and uses the first.  The
\* working directory changes only in a dispatch of cd followed by one or more
\* tokens, and then to the first of them; whenever that token names a
\* directory chdir accepts the directory becomes it and nothing is reported,
\* whatever tokens follow.
C15_CdTakesFirstArgument ==
  /\ [][ cwd' # cwd =>
           /\ pc = "execute" /\ FirstTokenIs(CdName)
           /\ Len(tokens) >= 3
           /\ tokens[2].s \in Dirs
           /\ cwd' = tokens[2].s ]_vars
  /\ [][ (pc = "execute" /\ FirstTokenIs(CdName) /\ Len(tokens) >= 3
            /\ tokens[2].s \in Dirs) =>
           (cwd' = tokens[2].s /\ err' = err /\ status' = 1) ]_vars

\* cd d e, dispatched in the initial directory, has changed the directory to d
C15_Witness ==
  /\ pc = "free"
  /\ dispatched = << << CdName, <<"d">>, <<"e">> >> >>
  /\ tokens = << Ptr(CdName), Ptr(<<"d">>), Ptr(<<"e">>), NULL >>
  /\ cwd = <<"d">>
  /\ err = <<>>

\* the positions at which the line buffer is read (strtok scans it, the
\* tokens point into it) and those at which the token array is read or written
LineInUse == {"getchar", "split_malloc", "split_loop", "execute", "fork"}
ArgsInUse == {"split_loop", "execute", "fork"}

\* C16: the line buffer and the token array live for one iteration.  In every
\* iteration that reaches the end of dispatch both are allocated when the
\* loop frees them, so each is released once and not twice; they are released
\* nowhere else while the loop goes on; while either is read it is allocated;
\* and when an iteration starts nothing of an earlier one is still allocated.
C16_BuffersLiveOneIteration ==
  /\ [](pc = "free" => (lineMem = "alloc" /\ argsMem = "alloc"))
  /\ [][ pc = "free" => (lineMem' = "freed" /\ argsMem' = "freed") ]_vars
  /\ [][ ((lineMem = "alloc" /\ lineMem' # "alloc")
            \/ (argsMem = "alloc" /\ argsMem' # "alloc"))
           => (pc = "free" \/ pc' = "exited") ]_vars
  /\ [](pc \in LineInUse => lineMem = "alloc")
  /\ [](pc \in ArgsInUse => argsMem = "alloc")
  /\ []((pc \in {"prompt", "rl_malloc"}) =>
          (lineMem \in {"none", "freed"} /\ argsMem \in {"none", "freed"}))
  /\ [][ (lineMem' = "alloc" /\ lineMem # "alloc") => pc = "rl_malloc" ]_vars
  /\ [][ (argsMem' = "alloc" /\ argsMem # "alloc") => pc = "split_malloc" ]_vars

\* the third iteration starts with the buffers of the second released, after
\* a builtin and an external command
C16_Witness ==
  /\ pc = "prompt"
  /\ Len(dispatched) = 2
  /\ nForked = 1
  /\ lineMem = "freed"
  /\ argsMem = "freed"

\* the child waited for has been killed by a signal and is not yet reaped
KilledChildWaits == \E k \in Waited : k.st = "zombie" /\ k.how = "signaled"

\* C17 as stated: when a launched child is killed by a signal the interpreter
\* writes a report to the error stream, and the loop continues.
C17_SignalDeathIsReported ==
  [][ (pc = "wait" /\ KilledChildWaits) =>
        /\ Len(err') = Len(err) + 1
        /\ err'[Len(err')].who = 0
        /\ status' = 1
        /\ pc' = "free" ]_vars

\* C17, amended: a child's death by a signal is not reported.  The
\* interpreter writes nothing to the error stream or the output when it
\* learns of the death, nor while the child it waits for is gone; whenever
\* lsh_launch returns it returns 1, and the loop then prompts again without
\* writing anything.
C17_SignalDeathIsSilent ==
  /\ [][ (pc = "wait" /\ KilledChildWaits) =>
           /\ UNCHANGED << err, out, cwd >>
           /\ launch_status' = "signaled"
           /\ status' = 1
           /\ pc' = "free" ]_vars
  /\ [][ (pc = "wait" /\ Waited = {}) =>
           /\ UNCHANGED << err, out, cwd >>
           /\ pc' = "free" => status' = 1 ]_vars
  /\ [][ (pc = "wait" /\ pc' # "wait") => (pc' = "free" /\ status' = 1) ]_vars
  /\ [][ (pc = "free" /\ status = 1) =>
           (pc' = "prompt" /\ UNCHANGED << err, out, cwd >>) ]_vars

\* ls was killed by a signal, waitpid reported it, and the prompt is back
\* with nothing on the error stream
C17_Witness ==
  /\ pc = "prompt"
  /\ ~sigchldIgn
  /\ dispatched = << << <<"l","s">> >> >>
  /\ launch_status = "signaled"
  /\ children = {}
  /\ err = <<>>
  /\ out = << "> " >>

\* C18: the writes to the line buffer and to the token array stay in bounds.
\* Whenever lsh_read_line is about to write buffer[position] (a character or
\* the terminating NUL) and whenever lsh_split_line is about to write
\* tokens[position] (a token or the terminating NULL), 0 <= position <
\* capacity; so the slots written never exceed the capacity, also for lines
\* and token counts that are exact multiples of the growth step.
C18_WritesStayInBounds ==
  /\ pc = "getchar" => (0 <= rl_position /\ rl_position < rl_bufsize)
  /\ pc = "split_loop" => (0 <= tok_position /\ tok_position < tok_bufsize)
  /\ lineMem = "alloc" => Len(buffer) <= rl_bufsize
  /\ argsMem = "alloc" => Len(tokens) <= tok_bufsize
  /\ pc \in {"split_malloc", "split_loop", "execute"} =>
       (buffer[rl_position + 1] = NUL /\ rl_position + 1 <= rl_bufsize)
  /\ pc = "execute" =>
       (tokens[tok_position + 1] = NULL /\ tok_position + 1 <= tok_bufsize)

\* cd d: four characters and two tokens, each an exact multiple of its
\* growth step, so both buffers grew right before their terminator was written
C18_Witness ==
  /\ pc = "execute"
  /\ rl_position = 2 * LSH_RL_BUFSIZE
  /\ rl_bufsize = 3 * LSH_RL_BUFSIZE
  /\ tok_position = LSH_TOK_BUFSIZE
  /\ tok_bufsize = 2 * LSH_TOK_BUFSIZE
  /\ tokens = << Ptr(CdName), Ptr(<<"d">>), NULL >>
  /\ buffer = << "c", "d", SP, "d", NUL >>

\* the next waitpid call of the wait loop fails: the kernel knows no child
\* with the pid waited for, and the call writes nothing to status
WaitPidFails == pc = "wait" /\ Waited = {}

\* C19: the wait loop decides on a status that a successful waitpid has just
\* written.  While the child has not ended the loop is not left; and when a
\* waitpid call fails the outcome does not hang on what the unwritten status
\* holds: whatever value it has, the round ends the loop instead of going
\* round again for a child that is gone.
C19_WaitDecidesOnWrittenStatus ==
  /\ [][ (pc = "wait" /\ ~ChildEnded) => pc' = "wait" ]_vars
  /\ [](WaitPidFails =>
          \A g \in StatusValues :
            ENABLED WaitPid(g) => ENABLED (WaitPid(g) /\ pc' = "free"))

\* C20: lsh_read_line hands over a line only when a newline ended it.  A line
\* is tokenized and dispatched only after its newline was read; end-of-input
\* after characters of an unfinished last line ends the process with success
\* and those characters are never tokenized or dispatched; so at the prompt,
\* and when the process has ended through exit or end-of-input, the commands
\* dispatched are as many as the newlines read.
C20_OnlyTerminatedLinesDispatched ==
  /\ [](pc \in {"split_malloc", "split_loop", "execute"} =>
          (rl_c = LF /\ Len(dispatched) = nLines - 1))
  /\ [][ dispatched' # dispatched =>
           /\ rl_c = LF
           /\ Len(dispatched') = nLines
           /\ dispatched'[nLines] = ArgList
           /\ SubSeq(dispatched', 1, nLines - 1) = dispatched ]_vars
  /\ [][ (pc = "getchar" /\ rl_c' = EOF) =>
           /\ pc' = "exited"
           /\ exitStatus' = EXIT_SUCCESS
           /\ UNCHANGED << dispatched, tokens, nLines, nForked >> ]_vars
  /\ [](AtPrompt => Len(dispatched) = nLines)
  /\ [](exitSite \in {"read_eof", "main_return"} => Len(dispatched) = nLines)
  /\ NoStepAfterExit

\* end-of-input after the two characters of an unfinished third line: two
\* lines were ended by a newline and dispatched, the third never is
C20_Witness ==
  /\ pc = "exited"
  /\ exitSite = "read_eof"
  /\ exitStatus = EXIT_SUCCESS
  /\ buffer = << "l", "s" >>
  /\ rl_position = 2
  /\ nLines = 2
  /\ dispatched = << << <<"l","s">> >>, << CdName, <<"d">> >> >>

=============================================================================
